---- MODULE Spec2Model ----
(***************************************************************************)
(* Model of dig/xgraph/dataset/syn_dataset.py: the BA_LRP synthetic graph  *)
(* generators and dataset construction, the two raw-data readers and       *)
(* SynGraphDataset.process.                                                *)
(*                                                                         *)
(* Tensors are modelled by their contents: data.x is the sequence of the   *)
(* node features, data.edge_index the sequence of its columns <<row0,      *)
(* row1>> (row0 is the source row the degree computation scans).  Node     *)
(* indices are 0-based as in the source.                                   *)
(*                                                                         *)
(* The random source is a stream of quantiles in 0..NumQuantiles-1; a      *)
(* draw of torch.distributions.Categorical is the inverse CDF of the       *)
(* weight vector at that quantile.  The draws of the for loops read a      *)
(* cyclic tape chosen at start (the seeded stream); the re-draw inside the *)
(* retry loop of gen_class2 is any quantile, since the loop's exit depends *)
(* on it alone.                                                            *)
(***************************************************************************)
EXTENDS Integers, Sequences, FiniteSets, TLC

\* ---------------------------------------------------------------- bounds
TapeLen == 2
NumQuantiles == 2
MaxPerClass == 1
\* the number of draws taken is recorded modulo DrawsMod
DrawsMod == 2

\* ------------------------------------------------------ program constants
\* range(2, 20) in gen_class1 and gen_class2
NumNodes == 20
\* i % 5 != 4 in gen_class2
Period == 5
PeriodPhase == 4

VARIABLES
    num_per_class,   \* BA_LRP.num_per_class
    raw_exists,      \* files_exist(self.raw_paths)
    pc,              \* position in BA_LRP.process / gen_class1 / gen_class2
    iter,            \* loop variable of process
    data_list,       \* data_list of process
    data,            \* graph under construction in gen_class1 / gen_class2
    i,               \* growth step of the generator
    probs,           \* weight vector of prob_dist in gen_class2
    k,               \* iterations done of the inner for loop of gen_class2
    node_pick,       \* node_pick of gen_class2
    new_node_pick,   \* new_node_pick of gen_class2
    tape,            \* the random stream
    pos,             \* position in the random stream
    draws,           \* number of prob_dist.sample() calls so far, modulo DrawsMod
    processed,       \* content of processed_paths[0] of BA_LRP
    name,            \* SynGraphDataset.name
    raw,             \* unpickled content of the raw file
    pre_filter,      \* SynGraphDataset.pre_filter
    pre_transform,   \* SynGraphDataset.pre_transform
    store,           \* self.data, self.slices of SynGraphDataset
    saved,           \* content of processed_paths[0] of SynGraphDataset
    spc,             \* position in SynGraphDataset.__init__ / process, or in a reader
    dl,              \* data_list of SynGraphDataset.process / what a reader returned
    in_init,         \* process runs inside __init__
    reruns           \* calls of process() after construction

vars == <<num_per_class, raw_exists, pc, iter, data_list, data, i, probs, k,
          node_pick, new_node_pick, tape, pos, draws, processed,
          name, raw, pre_filter, pre_transform, store, saved, spc, dl, in_init,
          reruns>>

genVars == <<data, i, probs, k, node_pick, new_node_pick, pos, draws>>

balrpVars == <<num_per_class, raw_exists, pc, iter, data_list, data, i, probs, k,
               node_pick, new_node_pick, tape, pos, draws, processed>>

synVars == <<name, raw, pre_filter, pre_transform, store, saved, spc, dl, in_init,
             reruns>>

NoFile == [kind |-> "none"]
RawCopy == [kind |-> "raw"]
NoData == [x |-> <<>>, edge_index |-> <<>>, y |-> <<>>]
NoProbs == <<>>
NoRaw == [kind |-> "none"]
Unset == [kind |-> "unset"]

\* ------------------------------------------------------------ arithmetic
RECURSIVE Gcd(_, _)
Gcd(a, b) == IF b = 0 THEN a ELSE Gcd(b, a % b)

\* the arguments are bound to their values once, whatever they cost
Lcm(a, b) == CHOOSE m \in {(x * y) \div Gcd(x, y) : x \in {a}, y \in {b}} : TRUE

\* w[0] + ... + w[v]
RECURSIVE Cum(_, _)
Cum(w, v) == IF v < 0 THEN 0 ELSE w[v] + Cum(w, v - 1)

\* deg.sum(dim=0) / deg_reciprocal.sum(dim=0) over the n existing nodes
Total(w, n) == Cum(w, n - 1)

\* least common multiple of acc and the positive entries of d[0..v]
RECURSIVE LcmUpTo(_, _, _)
LcmUpTo(d, v, acc) ==
    IF v < 0 THEN acc
    ELSE LcmUpTo(d, v - 1, IF d[v] = 0 THEN acc ELSE Lcm(acc, d[v]))

\* --------------------------------------------------------------- sampling
\* a sampler that returns the first node whatever the weights: a mutant
SampleFirst(w, n, r) == 0

\* prob_dist.sample(): the node whose cumulative-probability interval holds
\* the quantile r / NumQuantiles.
Sample(w, n, r) ==
    CHOOSE v \in 0..(n - 1) :
        /\ NumQuantiles * Cum(w, v) > r * Total(w, n)
        /\ \A u \in 0..(v - 1) : NumQuantiles * Cum(w, u) <= r * Total(w, n)

\* ------------------------------------------------------------- generators
\* (data.edge_index[0] == node_idx).float().sum()
Degree(edge_index, node_idx) ==
    Cardinality({e \in 1..Len(edge_index) : edge_index[e][1] = node_idx})

\* torch.stack([... for node_idx in range(i)])
Degrees(edge_index, n) == [node_idx \in 0..(n - 1) |-> Degree(edge_index, node_idx)]

\* 1 / (degree + epsilon), scaled by the least common multiple of the
\* degrees so that the weights are integers.  With epsilon = 1e-30 a node of
\* degree 0 outweighs every other node by a factor of 1e30: it takes all of
\* the probability mass any quantile can resolve.
ReciprocalWeights(deg, n) ==
    IF \E v \in 0..(n - 1) : deg[v] = 0
    THEN [v \in 0..(n - 1) |-> IF deg[v] = 0 THEN 1 ELSE 0]
    ELSE [v \in 0..(n - 1) |-> LcmUpTo(deg, n - 1, 1) \div deg[v]]

\* only the column (node_pick, i) is appended: a mutant
NewEdgesOneWay(pick, node) == << <<pick, node>> >>

\* torch.tensor([[node_pick, i], [i, node_pick]]) as two columns
NewEdges(pick, node) == << <<pick, node>>, <<node, pick>> >>

\* one pick at every step: a mutant
NumPicksOne(node) == 1

\* range(1 if i % 5 != 4 else 2)
NumPicks(node) == IF node % Period # PeriodPhase THEN 1 ELSE 2

\* the second draw is taken as it comes: a mutant
MustResampleNever(new_pick, pick) == FALSE

\* while new_node_pick == node_pick
MustResample(new_pick, pick) == new_pick = pick

\* every graph is labelled 0: a mutant
InitialGraphLabel0(label) ==
    [x |-> <<1, 1>>, edge_index |-> << <<0, 1>>, <<1, 0>> >>, y |-> <<0>>]

\* the first edge is stored in one direction only: a mutant
InitialGraphOneWay(label) ==
    [x |-> <<1, 1>>, edge_index |-> << <<0, 1>> >>, y |-> <<label>>]

\* x, edge_index and Data(...) at the head of gen_class1 / gen_class2
InitialGraph(label) ==
    [x |-> <<1, 1>>, edge_index |-> << <<0, 1>>, <<1, 0>> >>, y |-> <<label>>]

\* InMemoryDataset.collate: concatenation of every field in list order with
\* the slice table of cumulative sizes; it reads data_list[0] and raises on
\* an empty list.
RECURSIVE CatX(_)
CatX(l) == IF l = <<>> THEN <<>> ELSE Head(l).x \o CatX(Tail(l))

RECURSIVE CatEdges(_)
CatEdges(l) == IF l = <<>> THEN <<>> ELSE Head(l).edge_index \o CatEdges(Tail(l))

RECURSIVE CatY(_)
CatY(l) == IF l = <<>> THEN <<>> ELSE Head(l).y \o CatY(Tail(l))

RECURSIVE SliceX(_, _)
SliceX(l, from) ==
    IF l = <<>> THEN <<from>>
    ELSE <<from>> \o SliceX(Tail(l), from + Len(Head(l).x))

RECURSIVE SliceEdges(_, _)
SliceEdges(l, from) ==
    IF l = <<>> THEN <<from>>
    ELSE <<from>> \o SliceEdges(Tail(l), from + Len(Head(l).edge_index))

RECURSIVE SliceY(_, _)
SliceY(l, from) ==
    IF l = <<>> THEN <<from>>
    ELSE <<from>> \o SliceY(Tail(l), from + Len(Head(l).y))

Collate(l) ==
    [kind |-> "bundle",
     x |-> CatX(l), edge_index |-> CatEdges(l), y |-> CatY(l),
     slices |-> [x |-> SliceX(l, 0), edge_index |-> SliceEdges(l, 0),
                 y |-> SliceY(l, 0)]]

\* ------------------------------------------------------------------ Init
Init ==
    /\ num_per_class \in 0..MaxPerClass
    /\ raw_exists \in BOOLEAN
    /\ tape \in [0..(TapeLen - 1) -> 0..(NumQuantiles - 1)]
    /\ pos = 0
    /\ draws = 0
    /\ pc = "process"
    /\ iter = 0
    /\ data_list = <<>>
    /\ data = NoData
    /\ i = 0
    /\ probs = NoProbs
    /\ k = 0
    /\ node_pick = -1
    /\ new_node_pick = -1
    /\ processed = NoFile
    /\ name = ""
    /\ raw = NoRaw
    /\ pre_filter = "None"
    /\ pre_transform = "None"
    /\ store = Unset
    /\ saved = NoFile
    /\ spc = "idle"
    /\ dl = <<>>
    /\ in_init = FALSE
    /\ reruns = 0

\* --------------------------------------------------------- BA_LRP.process
\* if files_exist(self.raw_paths): shutil.copyfile(...); return
ProcessCopyRaw ==
    /\ pc = "process"
    /\ raw_exists
    /\ processed' = RawCopy
    /\ pc' = "done"
    /\ UNCHANGED synVars
    /\ UNCHANGED <<num_per_class, raw_exists, iter, data_list, tape>>
    /\ UNCHANGED genVars

\* data_list = []
ProcessBegin ==
    /\ pc = "process"
    /\ ~raw_exists
    /\ data_list' = <<>>
    /\ iter' = 0
    /\ pc' = "loop"
    /\ UNCHANGED synVars
    /\ UNCHANGED <<num_per_class, raw_exists, tape, processed>>
    /\ UNCHANGED genVars

\* for i in range(self.num_per_class): ... self.gen_class1() is entered
CallGenClass1 ==
    /\ pc = "loop"
    /\ iter < num_per_class
    /\ data' = InitialGraph(0)
    /\ i' = 2
    /\ pc' = "gen1"
    /\ UNCHANGED synVars
    /\ UNCHANGED <<num_per_class, raw_exists, iter, data_list, tape, processed,
                   probs, k, node_pick, new_node_pick, pos, draws>>

\* one iteration of the for loop of gen_class1
GenClass1Step ==
    /\ pc = "gen1"
    /\ i < NumNodes
    /\ LET x == Append(data.x, 1)
           deg == Degrees(data.edge_index, i)
           sum_deg == Total(deg, i)
       IN  IF sum_deg = 0
           THEN /\ pc' = "ValueError"
                /\ data' = [data EXCEPT !.x = x]
                /\ UNCHANGED <<i, pos, draws>>
           ELSE LET pick == Sample(deg, i, tape[pos])
                IN  /\ data' = [data EXCEPT !.x = x,
                                    !.edge_index = data.edge_index \o NewEdges(pick, i)]
                    /\ pos' = (pos + 1) % TapeLen
                    /\ draws' = (draws + 1) % DrawsMod
                    /\ i' = i + 1
                    /\ pc' = pc
    /\ UNCHANGED synVars
    /\ UNCHANGED <<num_per_class, raw_exists, iter, data_list, tape, processed,
                   probs, k, node_pick, new_node_pick>>

\* return data of gen_class1; data_list.append(...)
GenClass1Return ==
    /\ pc = "gen1"
    /\ i = NumNodes
    /\ data_list' = Append(data_list, data)
    /\ pc' = "call2"
    /\ UNCHANGED synVars
    /\ UNCHANGED <<num_per_class, raw_exists, iter, tape, processed>>
    /\ UNCHANGED genVars

\* self.gen_class2() is entered
CallGenClass2 ==
    /\ pc = "call2"
    /\ data' = InitialGraph(1)
    /\ i' = 2
    /\ pc' = "gen2_for"
    /\ UNCHANGED synVars
    /\ UNCHANGED <<num_per_class, raw_exists, iter, data_list, tape, processed,
                   probs, k, node_pick, new_node_pick, pos, draws>>

\* head of an iteration of the outer for loop of gen_class2, up to
\* node_pick = -1
GenClass2For ==
    /\ pc = "gen2_for"
    /\ i < NumNodes
    /\ data' = [data EXCEPT !.x = Append(data.x, 1)]
    /\ probs' = ReciprocalWeights(Degrees(data.edge_index, i), i)
    /\ node_pick' = -1
    /\ k' = 0
    /\ pc' = "gen2_inner"
    /\ UNCHANGED synVars
    /\ UNCHANGED <<num_per_class, raw_exists, iter, data_list, tape, processed,
                   i, new_node_pick, pos, draws>>

\* for _ in range(...): new_node_pick = prob_dist.sample().squeeze()
GenClass2Draw ==
    /\ pc = "gen2_inner"
    /\ k < NumPicks(i)
    /\ new_node_pick' = Sample(probs, i, tape[pos])
    /\ pos' = (pos + 1) % TapeLen
    /\ draws' = (draws + 1) % DrawsMod
    /\ pc' = "gen2_while"
    /\ UNCHANGED synVars
    /\ UNCHANGED <<num_per_class, raw_exists, iter, data_list, tape, processed,
                   data, i, probs, k, node_pick>>

\* the body of while new_node_pick == node_pick, with quantile r
GenClass2Resample(r) ==
    /\ pc = "gen2_while"
    /\ MustResample(new_node_pick, node_pick)
    /\ new_node_pick' = Sample(probs, i, r)
    /\ draws' = (draws + 1) % DrawsMod
    /\ UNCHANGED synVars
    /\ UNCHANGED <<num_per_class, raw_exists, iter, data_list, tape, processed,
                   data, i, probs, k, node_pick, pos, pc>>

\* node_pick = new_node_pick; data.edge_index = torch.cat(...)
GenClass2AddEdge ==
    /\ pc = "gen2_while"
    /\ ~MustResample(new_node_pick, node_pick)
    /\ node_pick' = new_node_pick
    /\ data' = [data EXCEPT !.edge_index = data.edge_index \o NewEdges(new_node_pick, i)]
    /\ k' = k + 1
    /\ pc' = "gen2_inner"
    /\ UNCHANGED synVars
    /\ UNCHANGED <<num_per_class, raw_exists, iter, data_list, tape, processed,
                   i, probs, new_node_pick, pos, draws>>

\* the inner for loop is exhausted: next i
GenClass2Next ==
    /\ pc = "gen2_inner"
    /\ k = NumPicks(i)
    /\ i' = i + 1
    /\ pc' = "gen2_for"
    /\ UNCHANGED synVars
    /\ UNCHANGED <<num_per_class, raw_exists, iter, data_list, tape, processed,
                   data, probs, k, node_pick, new_node_pick, pos, draws>>

\* return data of gen_class2; data_list.append(...); next iteration of process
GenClass2Return ==
    /\ pc = "gen2_for"
    /\ i = NumNodes
    /\ data_list' = Append(data_list, data)
    /\ iter' = iter + 1
    /\ pc' = "loop"
    /\ UNCHANGED synVars
    /\ UNCHANGED <<num_per_class, raw_exists, tape, processed>>
    /\ UNCHANGED genVars

\* data, slices = self.collate(data_list); torch.save(...)
ProcessSave ==
    /\ pc = "loop"
    /\ iter >= num_per_class
    /\ data_list # <<>>
    /\ processed' = Collate(data_list)
    /\ pc' = "done"
    /\ UNCHANGED synVars
    /\ UNCHANGED <<num_per_class, raw_exists, iter, data_list, tape>>
    /\ UNCHANGED genVars

\* self.collate([]) reads data_list[0]
ProcessCollateEmpty ==
    /\ pc = "loop"
    /\ iter >= num_per_class
    /\ data_list = <<>>
    /\ pc' = "IndexError"
    /\ UNCHANGED synVars
    /\ UNCHANGED <<num_per_class, raw_exists, iter, data_list, tape, processed>>
    /\ UNCHANGED genVars

Next ==
    \/ ProcessCopyRaw
    \/ ProcessBegin
    \/ CallGenClass1
    \/ GenClass1Step
    \/ GenClass1Return
    \/ CallGenClass2
    \/ GenClass2For
    \/ GenClass2Draw
    \/ \E r \in 0..(NumQuantiles - 1) : GenClass2Resample(r)
    \/ GenClass2AddEdge
    \/ GenClass2Next
    \/ GenClass2Return
    \/ ProcessSave
    \/ ProcessCollateEmpty

Spec == Init /\ [][Next]_vars

\* A direct call of gen_class2 on a fresh random stream.
GenInit ==
    /\ num_per_class = 0
    /\ raw_exists = FALSE
    /\ tape \in [0..(TapeLen - 1) -> 0..(NumQuantiles - 1)]
    /\ pos = 0
    /\ draws = 0
    /\ pc = "call2"
    /\ iter = 0
    /\ data_list = <<>>
    /\ data = NoData
    /\ i = 0
    /\ probs = NoProbs
    /\ k = 0
    /\ node_pick = -1
    /\ new_node_pick = -1
    /\ processed = NoFile
    /\ name = ""
    /\ raw = NoRaw
    /\ pre_filter = "None"
    /\ pre_transform = "None"
    /\ store = Unset
    /\ saved = NoFile
    /\ spc = "idle"
    /\ dl = <<>>
    /\ in_init = FALSE
    /\ reruns = 0

GenNext ==
    \/ CallGenClass2
    \/ GenClass2For
    \/ GenClass2Draw
    \/ \E r \in 0..(NumQuantiles - 1) : GenClass2Resample(r)
    \/ GenClass2AddEdge
    \/ GenClass2Next

\* the program runs on, and the sampler is fair: a quantile that can be drawn
\* again and again is eventually drawn
FairSpec ==
    /\ GenInit
    /\ [][GenNext]_vars
    /\ WF_vars(GenNext)
    /\ \A r \in 0..(NumQuantiles - 1) : WF_vars(GenClass2Resample(r))

\* ------------------------------------------------------ claims on BA_LRP
\* the entries come as pairs (a, b), (b, a)
IsUndirected(edge_index) ==
    /\ Len(edge_index) % 2 = 0
    /\ \A p \in 1..(Len(edge_index) \div 2) :
           edge_index[2 * p] = <<edge_index[2 * p - 1][2], edge_index[2 * p - 1][1]>>

\* entries (target, node) that attach node to an older node
Attachments(edge_index, node) ==
    {e \in 1..Len(edge_index) : edge_index[e][2] = node /\ edge_index[e][1] < node}

AtGenClass1Return == pc = "gen1" /\ i = NumNodes
AtGenClass2Return == pc = "gen2_for" /\ i = NumNodes
InGenClass2 == pc \in {"gen2_for", "gen2_inner", "gen2_while"}

\* C1, as claimed: whatever the draws, gen_class1 returns a graph of exactly
\* 20 nodes with label 0 and 20 undirected edge pairs, 40 directed entries.
C1_AsClaimed ==
    AtGenClass1Return =>
        /\ Len(data.x) = 20
        /\ data.y = <<0>>
        /\ Len(data.edge_index) = 40
        /\ IsUndirected(data.edge_index)

\* C1, amended: whatever the draws, gen_class1 returns a graph of exactly 20
\* nodes with label 0 and 1 + 18 = 19 undirected edge pairs, 38 directed
\* entries.
C1_GenClass1Result ==
    AtGenClass1Return =>
        /\ Len(data.x) = 20
        /\ data.y = <<0>>
        /\ Len(data.edge_index) = 38
        /\ IsUndirected(data.edge_index)

C1_Witness ==
    /\ AtGenClass1Return
    /\ Len(data.x) = 20
    /\ Len(data.edge_index) = 38

\* C2, as claimed: whatever the draws, gen_class2 returns a graph of exactly
\* 20 nodes with label 1 and 22 undirected edge pairs, 44 directed entries,
\* the 4 extra edges being added at the steps 4, 9, 14 and 19.
C2_AsClaimed ==
    AtGenClass2Return =>
        /\ Len(data.x) = 20
        /\ data.y = <<1>>
        /\ Len(data.edge_index) = 44
        /\ IsUndirected(data.edge_index)
        /\ \A node \in 2..19 :
               Cardinality(Attachments(data.edge_index, node))
                   = (IF node \in {4, 9, 14, 19} THEN 2 ELSE 1)

\* C2, amended: whatever the draws, gen_class2 returns a graph of exactly 20
\* nodes with label 1 and 1 + 18 + 4 = 23 undirected edge pairs, 46 directed
\* entries; the nodes 4, 9, 14 and 19 are attached by two edges, every other
\* added node by one.
C2_GenClass2Result ==
    AtGenClass2Return =>
        /\ Len(data.x) = 20
        /\ data.y = <<1>>
        /\ Len(data.edge_index) = 46
        /\ IsUndirected(data.edge_index)
        /\ \A node \in 2..19 :
               Cardinality(Attachments(data.edge_index, node))
                   = (IF node \in {4, 9, 14, 19} THEN 2 ELSE 1)

C2_Witness ==
    /\ AtGenClass2Return
    /\ Len(data.edge_index) = 46
    /\ Cardinality(Attachments(data.edge_index, 19)) = 2

\* C8: in gen_class2 the edge list never holds a directed edge twice nor a
\* self-loop, and the two edges of a step with i mod 5 = 4 attach node i to
\* two distinct existing nodes of 0..i-1.
C8_NoDuplicateEdge ==
    InGenClass2 =>
        /\ \A e \in 1..Len(data.edge_index) :
               data.edge_index[e][1] # data.edge_index[e][2]
        /\ \A e, f \in 1..Len(data.edge_index) :
               e # f => data.edge_index[e] # data.edge_index[f]
        /\ \A node \in 2..(NumNodes - 1) :
               \A e \in Attachments(data.edge_index, node) :
                   data.edge_index[e][1] \in 0..(node - 1)
        /\ (pc = "gen2_inner" /\ i % 5 = 4 /\ k = 2) =>
               Cardinality({data.edge_index[e][1] :
                               e \in Attachments(data.edge_index, i)}) = 2

\* both edges of step 19 are in the list
C8_Witness ==
    /\ pc = "gen2_inner"
    /\ i = 19
    /\ k = 2
    /\ Cardinality({data.edge_index[e][1] :
                       e \in Attachments(data.edge_index, 19)}) = 2

\* C9: under fair sampling every retry loop of gen_class2 is left, and a
\* call of gen_class2 reaches its return with node 19 added.
C9_GenClass2Terminates ==
    /\ (pc = "gen2_while") ~> (pc = "gen2_inner")
    /\ (pc = "call2") ~> (AtGenClass2Return /\ Len(data.x) = NumNodes)

\* the retry loop is entered at step 19
C9_Witness ==
    /\ pc = "gen2_while"
    /\ i = 19
    /\ new_node_pick = node_pick

\* C10: at the start of every growth step i of gen_class1 and gen_class2
\* every existing node 0..i-1 has degree at least 1; the total weight is
\* positive and every existing node has a positive weight.
C10_DegreesPositive ==
    /\ (pc = "gen1" /\ i < NumNodes) =>
           /\ \A v \in 0..(i - 1) : Degree(data.edge_index, v) >= 1
           /\ Total(Degrees(data.edge_index, i), i) > 0
    /\ (pc = "gen2_for" /\ i < NumNodes) =>
           /\ \A v \in 0..(i - 1) : Degree(data.edge_index, v) >= 1
           /\ Total(ReciprocalWeights(Degrees(data.edge_index, i), i), i) > 0
           /\ \A v \in 0..(i - 1) :
                  ReciprocalWeights(Degrees(data.edge_index, i), i)[v] > 0

C10_Witness ==
    /\ pc = "gen2_for"
    /\ i = 19
    /\ \E v \in 0..18 : Degree(data.edge_index, v) > 2

\* the processed file holds n graphs of each class, class 1 first, alternating
IsAlternatingBundle(file, n) ==
    /\ file.kind = "bundle"
    /\ Len(file.slices.x) = 2 * n + 1
    /\ Len(file.y) = 2 * n
    /\ Len(file.slices.y) = 2 * n + 1
    /\ \A g \in 0..(2 * n - 1) :
           /\ file.y[g + 1] = g % 2
           /\ file.slices.y[g + 1] = g
           /\ file.slices.x[g + 2] - file.slices.x[g + 1] = 20
           /\ file.slices.edge_index[g + 2] - file.slices.edge_index[g + 1]
                  = (IF g % 2 = 0 THEN 38 ELSE 46)

ProcessEnded == pc \in {"done", "IndexError", "ValueError"}

MaxGraphs == 2

Bool2Int(b) == IF b THEN 1 ELSE 0

\* adj.nonzero() of dense_to_sparse: the cells of the V x V matrix m from cell
\* c on, row after row, that are not zero
RECURSIVE ScanCells(_, _)
ScanCells(m, c) ==
    IF c >= Len(m) * Len(m) THEN <<>>
    ELSE (IF m[(c \div Len(m)) + 1][(c % Len(m)) + 1] # 0
          THEN << <<c \div Len(m), c % Len(m)>> >>
          ELSE <<>>) \o ScanCells(m, c + 1)

\* dense_to_sparse(adj): the pair (edge_index, edge_attr)
DenseToSparse(m) ==
    <<ScanCells(m, 0),
      [e \in 1..Len(ScanCells(m, 0)) |->
          m[ScanCells(m, 0)[e][1] + 1][ScanCells(m, 0)[e][2] + 1]]>>

\* np.where(v)[0] of a vector: the 0-based positions from j on that are not zero
RECURSIVE WhereVec(_, _)
WhereVec(v, j) ==
    IF j >= Len(v) THEN <<>>
    ELSE (IF v[j + 1] # 0 THEN <<j>> ELSE <<>>) \o WhereVec(v, j + 1)

\* np.where(y)[1] of a matrix: the column positions of its nonzero cells, row
\* after row, from row r on
RECURSIVE WhereCols(_, _)
WhereCols(y, r) ==
    IF r > Len(y) THEN <<>> ELSE WhereVec(y[r], 0) \o WhereCols(y, r + 1)

\* the graph at graph_idx read as the graph at index 1: a mutant
read_ba2motif_data_first(r) ==
    [graph_idx \in 1..Len(r.dense_edges) |->
        [x |-> r.node_features[graph_idx],
         edge_index |-> DenseToSparse(r.dense_edges[1])[1],
         y |-> WhereVec(r.graph_labels[graph_idx], 0),
         train_mask |-> <<>>, val_mask |-> <<>>, test_mask |-> <<>>]]

\* read_ba2motif_data: one Data per graph of the 3-tuple; a Data of this
\* reader has no masks
read_ba2motif_data(r) ==
    [graph_idx \in 1..Len(r.dense_edges) |->
        [x |-> r.node_features[graph_idx],
         edge_index |-> DenseToSparse(r.dense_edges[graph_idx])[1],
         y |-> WhereVec(r.graph_labels[graph_idx], 0),
         train_mask |-> <<>>, val_mask |-> <<>>, test_mask |-> <<>>]]

\* y = train_mask.reshape(-1, 1) * y_train + val_mask... * y_val + test_mask... * y_test
MaskedLabels(r) ==
    [v \in 1..Len(r.y_train) |->
        [c \in 1..Len(r.y_train[v]) |->
            Bool2Int(r.train_mask[v]) * r.y_train[v][c]
            + Bool2Int(r.val_mask[v]) * r.y_val[v][c]
            + Bool2Int(r.test_mask[v]) * r.y_test[v][c]]]

\* read_syn_data: the one Data built from the 9-tuple
read_syn_data(r) ==
    [x |-> r.features,
     edge_index |-> DenseToSparse(r.adj)[1],
     y |-> WhereCols(MaskedLabels(r), 1),
     train_mask |-> r.train_mask, val_mask |-> r.val_mask, test_mask |-> r.test_mask]

\* ------------------------------------------------ raw files of the model
DenseNodes == {1, 2}
Bits == {0, 1}
Cells == {0, 1, 2}
Ones == [v \in DenseNodes |-> 1]
BitMatrices == [DenseNodes -> [DenseNodes -> Bits]]
CellMatrices == [DenseNodes -> [DenseNodes -> Cells]]
OneHots == [{1, 2} -> Bits]

\* the 3-tuple of the multi-graph format, from a sequence of [adj, label]
MultiRaw(gs) ==
    [kind |-> "multi",
     dense_edges |-> [g \in 1..Len(gs) |-> gs[g].adj],
     node_features |-> [g \in 1..Len(gs) |-> Ones],
     graph_labels |-> [g \in 1..Len(gs) |-> gs[g].label]]

\* any adjacency matrix, with a well-formed label vector
GraphsByAdj == [adj : BitMatrices, label : {<<1, 0>>, <<0, 1>>}]

\* any label vector, with an empty or a one-edge adjacency matrix
GraphsByLabel == [adj : {<<<<0, 0>>, <<0, 0>>>>, <<<<0, 1>>, <<1, 0>>>>}, label : OneHots]

MultiRaws(graphs) ==
    UNION {{MultiRaw(gs) : gs \in [1..n -> graphs]} : n \in 0..MaxGraphs}

\* the 9-tuple of the single-graph format
SingleRaw(adj, y_train, y_val, y_test, train_mask, val_mask, test_mask) ==
    [kind |-> "single", adj |-> adj, features |-> Ones,
     y_train |-> y_train, y_val |-> y_val, y_test |-> y_test,
     train_mask |-> train_mask, val_mask |-> val_mask, test_mask |-> test_mask,
     edge_label_matrix |-> adj]

\* well-formed labels, any adjacency matrix
SingleRawsByAdj ==
    {SingleRaw(adj, <<<<1, 0>>, <<0, 0>>>>, <<<<0, 0>>, <<0, 1>>>>,
               <<<<0, 0>>, <<0, 0>>>>, <<TRUE, FALSE>>, <<FALSE, TRUE>>,
               <<FALSE, FALSE>>) : adj \in CellMatrices}

\* one adjacency matrix, any masks and label rows
SingleRawsByLabels ==
    {SingleRaw(<<<<0, 1>>, <<1, 0>>>>, y_train, y_val, y_test, train_mask, val_mask,
               test_mask) :
        y_train \in [DenseNodes -> OneHots],
        y_val \in [DenseNodes -> {<<0, 0>>, <<1, 0>>}],
        y_test \in [DenseNodes -> {<<0, 0>>, <<0, 1>>}],
        train_mask \in [DenseNodes -> BOOLEAN],
        val_mask \in [DenseNodes -> BOOLEAN],
        test_mask \in [DenseNodes -> BOOLEAN]}

BalrpIdle ==
    /\ num_per_class = 0
    /\ raw_exists = FALSE
    /\ tape = [q \in 0..(TapeLen - 1) |-> 0]
    /\ pos = 0
    /\ draws = 0
    /\ pc = "idle"
    /\ iter = 0
    /\ data_list = <<>>
    /\ data = NoData
    /\ i = 0
    /\ probs = NoProbs
    /\ k = 0
    /\ node_pick = -1
    /\ new_node_pick = -1
    /\ processed = NoFile

\* a reader is called on a raw file of its format
ReadInit ==
    /\ BalrpIdle
    /\ name = ""
    /\ raw \in MultiRaws(GraphsByAdj) \cup MultiRaws(GraphsByLabel)
               \cup SingleRawsByAdj \cup SingleRawsByLabels
    /\ pre_filter = "None"
    /\ pre_transform = "None"
    /\ store = Unset
    /\ saved = NoFile
    /\ spc = "read"
    /\ dl = <<>>
    /\ in_init = FALSE
    /\ reruns = 0

ReadBa2Motif ==
    /\ spc = "read"
    /\ raw.kind = "multi"
    /\ dl' = read_ba2motif_data(raw)
    /\ spc' = "returned"
    /\ UNCHANGED balrpVars
    /\ UNCHANGED <<name, raw, pre_filter, pre_transform, store, saved, in_init, reruns>>

ReadSyn ==
    /\ spc = "read"
    /\ raw.kind = "single"
    /\ dl' = <<read_syn_data(raw)>>
    /\ spc' = "returned"
    /\ UNCHANGED balrpVars
    /\ UNCHANGED <<name, raw, pre_filter, pre_transform, store, saved, in_init, reruns>>

ReadNext ==
    \/ ReadBa2Motif
    \/ ReadSyn

ReadSpec == ReadInit /\ [][ReadNext]_vars

\* ------------------------------------------------- claims on the readers
NonzeroCount(v) == Cardinality({j \in 1..Len(v) : v[j] # 0})

\* C4, as claimed: read_ba2motif_data fails with MalformedInputError and
\* returns no record list whenever the label vector of some graph has no
\* nonzero entry or more than one.
C4_AsClaimed ==
    (spc = "returned" /\ raw.kind = "multi") =>
        \A g \in 1..Len(raw.graph_labels) : NonzeroCount(raw.graph_labels[g]) = 1

\* a node of the single-graph file whose label is undefined or ambiguous
BadNode(r, v) ==
    \/ ~(r.train_mask[v] \/ r.val_mask[v] \/ r.test_mask[v])
    \/ NonzeroCount(MaskedLabels(r)[v]) # 1

\* C5, as claimed: read_syn_data fails with MalformedInputError instead of
\* returning a record whenever some node has no mask set or the label row its
\* masks select has no nonzero entry or more than one; it never returns a
\* record whose label vector has a length different from the node count.
C5_AsClaimed ==
    (spc = "returned" /\ raw.kind = "single") =>
        /\ \A v \in 1..Len(raw.adj) : ~BadNode(raw, v)
        /\ Len(dl[1].y) = Len(raw.adj)

SetOf(seq) == {seq[e] : e \in 1..Len(seq)}

EdgesMatch(edge_index, m) ==
    /\ \A a, b \in 0..(Len(m) - 1) :
           (<<a, b>> \in SetOf(edge_index)) <=> (m[a + 1][b + 1] # 0)
    /\ Len(edge_index)
           = Cardinality({c \in (1..Len(m)) \X (1..Len(m)) : m[c[1]][c[2]] # 0})
    /\ (\A a, b \in 1..Len(m) : m[a][b] = 0) => edge_index = <<>>

\* C7: for every square dense adjacency matrix, the edge index a reader
\* stores holds the directed edge (a, b) if and only if cell (a, b) is not
\* zero, has as many edges as the matrix has nonzero cells, and is empty for
\* an all-zero matrix.
C7_EdgeIndex ==
    spc = "returned" =>
        IF raw.kind = "multi"
        THEN /\ Len(dl) = Len(raw.dense_edges)
             /\ \A g \in 1..Len(dl) : EdgesMatch(dl[g].edge_index, raw.dense_edges[g])
        ELSE EdgesMatch(dl[1].edge_index, raw.adj)

\* two graphs are read, the first without an edge, the second complete
C7_Witness ==
    /\ spc = "returned"
    /\ raw.kind = "multi"
    /\ Len(dl) = 2
    /\ dl[1].edge_index = <<>>
    /\ dl[2].edge_index = << <<0, 0>>, <<0, 1>>, <<1, 0>>, <<1, 1>> >>

\* ================================================= SynGraphDataset.process
MaxReruns == 1

DatasetNames == {"BA_2Motifs", "ba_2motifs", "BA_shapes"}

\* str.lower() on the names of the model
Lower(nm) ==
    CASE nm = "BA_2Motifs" -> "ba_2motifs"
      [] nm = "BA_shapes" -> "ba_shapes"
      [] OTHER -> nm

\* self.name.lower() == 'BA_2Motifs'.lower()
IsBa2Motifs(nm) == Lower(nm) = Lower("BA_2Motifs")

\* the hooks a caller may supply
Filters == {"None", "with_edges", "labelled"}
Transforms == {"None", "shift_x", "drop_edges"}

\* self.pre_filter(data)
ApplyFilter(f, d) ==
    CASE f = "with_edges" -> d.edge_index # <<>>
      [] f = "labelled" -> Len(d.y) = 1
      [] OTHER -> TRUE

\* self.pre_transform(data)
ApplyTransform(t, d) ==
    CASE t = "shift_x" -> [d EXCEPT !.x = [v \in DOMAIN d.x |-> d.x[v] + 1]]
      [] t = "drop_edges" -> [d EXCEPT !.edge_index = <<>>]
      [] OTHER -> d

RECURSIVE CatAttr(_, _)
CatAttr(l, attr) == IF l = <<>> THEN <<>> ELSE Head(l)[attr] \o CatAttr(Tail(l), attr)

\* self.collate(data_list) on the Data of the readers: the masks are
\* concatenated as every other attribute is
SynCollate(l) ==
    Collate(l) @@ [train_mask |-> CatAttr(l, "train_mask"),
                   val_mask |-> CatAttr(l, "val_mask"),
                   test_mask |-> CatAttr(l, "test_mask")]

\* len(self): the slice table has one entry more than there are graphs
NumGraphs(bundle) == Len(bundle.slices.x) - 1

\* self.get(idx) on the bundle of a multi-graph dataset
Get(bundle, idx) ==
    [x |-> SubSeq(bundle.x, bundle.slices.x[idx + 1] + 1, bundle.slices.x[idx + 2]),
     edge_index |-> SubSeq(bundle.edge_index, bundle.slices.edge_index[idx + 1] + 1,
                           bundle.slices.edge_index[idx + 2]),
     y |-> SubSeq(bundle.y, bundle.slices.y[idx + 1] + 1, bundle.slices.y[idx + 2]),
     train_mask |-> <<>>, val_mask |-> <<>>, test_mask |-> <<>>]

\* [self.get(idx) for idx in range(len(self))]
GetAll(bundle) == [g \in 1..NumGraphs(bundle) |-> Get(bundle, g - 1)]

\* [data for data in data_list if self.pre_filter(data)]
RECURSIVE KeepIf(_, _)
KeepIf(f, l) ==
    IF l = <<>> THEN <<>>
    ELSE (IF ApplyFilter(f, Head(l)) THEN <<Head(l)>> ELSE <<>>) \o KeepIf(f, Tail(l))

\* [self.pre_transform(data) for data in data_list]
MapTransform(t, l) == [g \in 1..Len(l) |-> ApplyTransform(t, l[g])]

SmallGraphs ==
    {[adj |-> <<<<0, 1>>, <<1, 0>>>>, label |-> <<1, 0>>],
     [adj |-> <<<<0, 0>>, <<0, 0>>>>, label |-> <<0, 1>>],
     [adj |-> <<<<0, 1>>, <<0, 0>>>>, label |-> <<0, 0>>]}

SmallSingleRaws ==
    {SingleRaw(adj, <<<<1, 0>>, <<0, 0>>>>, <<<<0, 0>>, <<0, 1>>>>,
               <<<<0, 0>>, <<0, 0>>>>, <<TRUE, FALSE>>, <<FALSE, TRUE>>,
               <<FALSE, FALSE>>) :
        adj \in {<<<<0, 1>>, <<1, 0>>>>, <<<<0, 0>>, <<0, 0>>>>}}

RawsFor(nm) == IF IsBa2Motifs(nm) THEN MultiRaws(SmallGraphs) ELSE SmallSingleRaws

\* SynGraphDataset(root, name, transform, pre_transform) on a root that holds
\* the raw file and no processed file: Dataset.__init__ leaves pre_filter
\* None and calls process() before self.data and self.slices are set.
SynInit ==
    /\ BalrpIdle
    /\ name \in DatasetNames
    /\ raw \in RawsFor(name)
    /\ pre_filter = "None"
    /\ pre_transform \in Transforms
    /\ store = Unset
    /\ saved = NoFile
    /\ spc = "process"
    /\ dl = <<>>
    /\ in_init = TRUE
    /\ reruns = 0

\* data_list = read_ba2motif_data(self.raw_dir, self.name)
ProcessReadMulti ==
    /\ spc = "process"
    /\ IsBa2Motifs(name)
    /\ dl' = read_ba2motif_data(raw)
    /\ spc' = "filter"
    /\ UNCHANGED balrpVars
    /\ UNCHANGED <<name, raw, pre_filter, pre_transform, store, saved, in_init, reruns>>

\* if self.pre_filter is not None: not taken
ProcessFilterSkip ==
    /\ spc = "filter"
    /\ pre_filter = "None"
    /\ spc' = "transform"
    /\ UNCHANGED balrpVars
    /\ UNCHANGED <<name, raw, pre_filter, pre_transform, store, saved, dl, in_init, reruns>>

\* the body of if self.pre_filter is not None; len(self) reads self.slices,
\* which does not exist before __init__ has loaded the processed file
ProcessFilter ==
    /\ spc = "filter"
    /\ pre_filter # "None"
    /\ IF store = Unset
       THEN /\ spc' = "AttributeError"
            /\ UNCHANGED <<dl, store>>
       ELSE /\ dl' = KeepIf(pre_filter, GetAll(store))
            /\ IF dl' = <<>>
               THEN spc' = "IndexError" /\ UNCHANGED store
               ELSE spc' = "transform" /\ store' = SynCollate(dl')
    /\ UNCHANGED balrpVars
    /\ UNCHANGED <<name, raw, pre_filter, pre_transform, saved, in_init, reruns>>

\* if self.pre_transform is not None: not taken
ProcessTransformSkip ==
    /\ spc = "transform"
    /\ pre_transform = "None"
    /\ spc' = "save"
    /\ UNCHANGED balrpVars
    /\ UNCHANGED <<name, raw, pre_filter, pre_transform, store, saved, dl, in_init, reruns>>

\* the body of if self.pre_transform is not None
ProcessTransform ==
    /\ spc = "transform"
    /\ pre_transform # "None"
    /\ IF store = Unset
       THEN /\ spc' = "AttributeError"
            /\ UNCHANGED <<dl, store>>
       ELSE /\ dl' = MapTransform(pre_transform, GetAll(store))
            /\ IF dl' = <<>>
               THEN spc' = "IndexError" /\ UNCHANGED store
               ELSE spc' = "save" /\ store' = SynCollate(dl')
    /\ UNCHANGED balrpVars
    /\ UNCHANGED <<name, raw, pre_filter, pre_transform, saved, in_init, reruns>>

\* the else branch: read_syn_data, pre_transform, data_list = [data]
ProcessSingle ==
    /\ spc = "process"
    /\ ~IsBa2Motifs(name)
    /\ dl' = <<IF pre_transform = "None" THEN read_syn_data(raw)
               ELSE ApplyTransform(pre_transform, read_syn_data(raw))>>
    /\ spc' = "save"
    /\ UNCHANGED balrpVars
    /\ UNCHANGED <<name, raw, pre_filter, pre_transform, store, saved, in_init, reruns>>

\* torch.save(self.collate(data_list), self.processed_paths[0])
ProcessSaveSyn ==
    /\ spc = "save"
    /\ IF dl = <<>>
       THEN spc' = "IndexError" /\ UNCHANGED saved
       ELSE spc' = "saved" /\ saved' = SynCollate(dl)
    /\ UNCHANGED balrpVars
    /\ UNCHANGED <<name, raw, pre_filter, pre_transform, store, dl, in_init, reruns>>

\* process returns into __init__:
\* self.data, self.slices = torch.load(self.processed_paths[0])
InitLoad ==
    /\ spc = "saved"
    /\ in_init
    /\ store' = saved
    /\ in_init' = FALSE
    /\ spc' = "ready"
    /\ UNCHANGED balrpVars
    /\ UNCHANGED <<name, raw, pre_filter, pre_transform, saved, dl, reruns>>

\* process returns to a caller outside __init__
ProcessReturn ==
    /\ spc = "saved"
    /\ ~in_init
    /\ spc' = "ready"
    /\ UNCHANGED balrpVars
    /\ UNCHANGED <<name, raw, pre_filter, pre_transform, store, saved, dl, in_init, reruns>>

\* the caller sets the hooks of the constructed dataset, the raw file is
\* replaced, and process() is called again
Reprocess(f, t, r) ==
    /\ spc = "ready"
    /\ reruns < MaxReruns
    /\ pre_filter' = f
    /\ pre_transform' = t
    /\ raw' = r
    /\ reruns' = reruns + 1
    /\ spc' = "process"
    /\ UNCHANGED balrpVars
    /\ UNCHANGED <<name, store, saved, dl, in_init>>

SynNext ==
    \/ ProcessReadMulti
    \/ ProcessFilterSkip
    \/ ProcessFilter
    \/ ProcessTransformSkip
    \/ ProcessTransform
    \/ ProcessSingle
    \/ ProcessSaveSyn
    \/ InitLoad
    \/ ProcessReturn
    \/ \E f \in Filters, t \in Transforms, r \in RawsFor(name) : Reprocess(f, t, r)

SynSpec == SynInit /\ [][SynNext]_vars

\* ----------------------------------------- claims on SynGraphDataset.process
\* the freshly read records that pass the filter, each mapped by the transform
Expected ==
    MapTransform(pre_transform, KeepIf(pre_filter, read_ba2motif_data(raw)))

\* C6, as claimed: in process for the multi-graph variant, when a filter
\* and/or a transform is supplied, the persisted bundle is the collation of
\* exactly the freshly read records that pass the filter, each mapped by the
\* transform, in input order.
C6_AsClaimed ==
    (/\ IsBa2Motifs(name)
     /\ pre_filter # "None" \/ pre_transform # "None"
     /\ spc \in {"saved", "AttributeError", "IndexError"}
     /\ Expected # <<>>) =>
        /\ spc = "saved"
        /\ saved = SynCollate(Expected)

====
